---- MODULE Spec2Model ----
(***************************************************************************)
(* Model of src/src2/model.py: three pytorch-lightning task modules        *)
(* (binary sequence classification, token classification, Auto sequence    *)
(* classification), their step hooks, optimizer parameter grouping and     *)
(* epoch-end metric aggregation, driven by the trainer's lifecycle         *)
(* N x step -> 1 x epoch_end.                                              *)
(*                                                                         *)
(* Tensors are records [shape, data] with data in row-major order.         *)
(* Fractions (accuracy, F1, mean loss) are pairs <<numerator, denominator>>*)
(* compared by cross-multiplication; <<0, 0>> is the value of a metric     *)
(* computed over empty arrays.                                             *)
(***************************************************************************)
EXTENDS Integers, Sequences, FiniteSets, TLC

VARIABLES
    module,     \* which LightningModule the trainer drives
    pc,         \* trainer position: "init", "idle", "running", "ended", "failed"
    stage,      \* "none", "train", "val", "test"
    outputs,    \* the epoch buffer: the step hooks' return values, in arrival order
    arrived,    \* the batches (with the model's logits) delivered this epoch
    last,       \* shapes seen by the most recent binary shared_step
    logs,       \* self.log calls made during the current epoch
    result,     \* locals of the epoch_end that closed the current epoch
    named,      \* list(self.model.named_parameters()): the parameter names
    hparams,    \* self.hparams: base_lr, linear_lr
    optim       \* grouped_parameters handed to AdamW

vars == <<module, pc, stage, outputs, arrived, last, logs, result, named, hparams, optim>>

-----------------------------------------------------------------------------
(* Bounds of the model *)

\* samples in one epoch buffer of the binary module
MaxBinarySamples == 4
\* tokens in one epoch buffer of the token-classification module
MaxTokens == 3
\* samples in one epoch buffer of the Auto module
MaxAutoSamples == 3
\* number of named parameters of a model
MaxParams == 3

-----------------------------------------------------------------------------
(* Generic helpers *)

RECURSIVE SumSeq(_)
SumSeq(s) == IF s = <<>> THEN 0 ELSE Head(s) + SumSeq(Tail(s))

RECURSIVE ConcatAll(_)
ConcatAll(ss) == IF ss = <<>> THEN <<>> ELSE Head(ss) \o ConcatAll(Tail(ss))

CountIdx(s, P(_)) == Cardinality({i \in 1..Len(s) : P(i)})

\* numpy boolean-mask indexing y[mask]
RECURSIVE MaskSelect(_, _)
MaskSelect(y, mask) ==
    IF y = <<>> \/ mask = <<>> THEN <<>>
    ELSE (IF Head(mask) THEN <<Head(y)>> ELSE <<>>) \o MaskSelect(Tail(y), Tail(mask))

\* fractions
RatEq(a, b) == a[1] * b[2] = b[1] * a[2]
RatLt(a, b) == a[1] * b[2] < b[1] * a[2]
RatLe(a, b) == a[1] * b[2] <= b[1] * a[2]
RatAdd(a, b) == <<a[1] * b[2] + b[1] * a[2], a[2] * b[2]>>

-----------------------------------------------------------------------------
(* Tensors *)

Tensor(shape, data) == [shape |-> shape, data |-> data]

\* Tensor.squeeze(): every dimension of size 1 is removed
Squeeze(t) == Tensor(SelectSeq(t.shape, LAMBDA d : d # 1), t.data)

\* Tensor.view(-1)
View1D(t) == Tensor(<<Len(t.data)>>, t.data)

\* index of the first maximal value of a vector, zero-based
ArgmaxVec(v) ==
    (CHOOSE i \in 1..Len(v) :
        /\ \A j \in 1..Len(v) : v[j] <= v[i]
        /\ \A j \in 1..(i - 1) : v[j] < v[i]) - 1

\* torch.argmax(t, dim=-1)
ArgmaxLast(t) ==
    LET C == t.shape[Len(t.shape)]
        n == Len(t.data) \div C
    IN  Tensor(SubSeq(t.shape, 1, Len(t.shape) - 1),
               [i \in 1..n |-> ArgmaxVec(SubSeq(t.data, (i - 1) * C + 1, i * C))])

\* torch.cat refuses zero-dimensional tensors
CanCat(ts) == \A i \in 1..Len(ts) : Len(ts[i].shape) >= 1

\* torch.cat of 1-D tensors along dim 0, as the flat array it becomes
Cat(ts) == ConcatAll([i \in 1..Len(ts) |-> ts[i].data])

-----------------------------------------------------------------------------
(* sklearn.metrics *)

\* a boolean numpy array as sklearn reads it: True is 1, False is 0
AsInt(y) == [i \in 1..Len(y) |-> IF y[i] THEN 1 ELSE 0]

\* metrics.accuracy_score(y_true, y_pred)
accuracy_score(y_true, y_pred) ==
    <<CountIdx(y_true, LAMBDA i : y_true[i] = y_pred[i]), Len(y_true)>>

TP(y_true, y_pred, c) == CountIdx(y_true, LAMBDA i : y_true[i] = c /\ y_pred[i] = c)
FP(y_true, y_pred, c) == CountIdx(y_true, LAMBDA i : y_true[i] # c /\ y_pred[i] = c)
FN(y_true, y_pred, c) == CountIdx(y_true, LAMBDA i : y_true[i] = c /\ y_pred[i] # c)

\* F1 of one label, 0 when the label is neither present nor predicted
LabelF1(y_true, y_pred, c) ==
    LET tp == TP(y_true, y_pred, c)
        d  == 2 * tp + FP(y_true, y_pred, c) + FN(y_true, y_pred, c)
    IN  IF d = 0 THEN <<0, 1>> ELSE <<2 * tp, d>>

\* metrics.f1_score(y_true, y_pred): average="binary", pos_label=1
f1_score_binary(y_true, y_pred) ==
    IF y_true = <<>> THEN <<0, 0>> ELSE LabelF1(y_true, y_pred, 1)

RECURSIVE WeightedSum(_, _, _)
WeightedSum(y_true, y_pred, labels) ==
    IF labels = {} THEN <<0, 1>>
    ELSE LET c  == CHOOSE x \in labels : \A y \in labels : x <= y
             f  == LabelF1(y_true, y_pred, c)
             w  == TP(y_true, y_pred, c) + FN(y_true, y_pred, c)
         IN  RatAdd(<<w * f[1], f[2]>>, WeightedSum(y_true, y_pred, labels \ {c}))

\* metrics.f1_score(y_true, y_pred, average="weighted")
f1_score_weighted(y_true, y_pred) ==
    LET labels == {y_true[i] : i \in 1..Len(y_true)} \cup {y_pred[i] : i \in 1..Len(y_pred)}
        s      == WeightedSum(y_true, y_pred, labels)
    IN  IF y_true = <<>> THEN <<0, 0>> ELSE <<s[1], s[2] * Len(y_true)>>

-----------------------------------------------------------------------------
(* Inputs *)

\* label value that marks a position excluded from loss and metrics
Sentinel == -100

\* raw logits the binary head can produce, and their sigmoid in thousandths
BinaryLogits == {-2, 0, 2}
Sigmoid(x) == CASE x = -2 -> 119 [] x = 0 -> 500 [] x = 2 -> 881
\* the 0.5 of ">= 0.5", in thousandths
Half == 500
\* softplus(x) = log(1 + exp(x)) in thousandths
Softplus(x) == CASE x = -2 -> 127 [] x = 0 -> 693 [] x = 2 -> 2127

BinaryTargets == {0, 1}
TokenLabels == {0, 1, Sentinel}
\* per-token logit vectors over the 2 labels
TokenLogits == {<<0, 1>>, <<1, 0>>}
\* labels of the Auto batches: class 1 is predicted and class 2 never is by the
\* logit vectors below, class 0 is predicted and never the label
AutoLabels == {1, 2, Sentinel}
\* per-sample logit vectors over num_labels = 3 classes (the second one is a tie)
AutoLogits == {<<1, 0, 0>>, <<0, 1, 1>>}
\* the loss a pretrained model's forward returns is not computed here
ModelLoss == "model_loss"

\* binary batches of B samples: {ids_seq, attn_masks, target}; only target is read
BinaryBatches(B) ==
    {[target |-> Tensor(<<B>>, d)] : d \in [1..B -> BinaryTargets]}

\* token batches: labels of shape (B, L)
TokenBatches(B, L) ==
    {[labels |-> Tensor(<<B, L>>, d)] : d \in [1..(B * L) -> TokenLabels]}

\* Auto batches: labels of shape (B,)
AutoBatches(B) ==
    {[labels |-> Tensor(<<B>>, d)] : d \in [1..B -> AutoLabels]}

\* MainModel.forward: one raw logit per sample, shape (B, 1)
MainModelForward(batch) ==
    LET B == batch.target.shape[1]
    IN  {Tensor(<<B, 1>>, d) : d \in [1..B -> BinaryLogits]}

\* AutoModelForTokenClassification(**batch): {loss, logits of shape (B, L, 2)}
TokenModelForward(batch) ==
    LET B == batch.labels.shape[1]
        L == batch.labels.shape[2]
    IN  {[loss |-> ModelLoss, logits |-> Tensor(<<B, L, 2>>, ConcatAll(v))] :
            v \in [1..(B * L) -> TokenLogits]}

\* AutoModelForSequenceClassification(**batch): {loss, logits of shape (B, 3)}
AutoModelForward(batch) ==
    LET B == batch.labels.shape[1]
    IN  {[loss |-> ModelLoss, logits |-> Tensor(<<B, 3>>, ConcatAll(v))] :
            v \in [1..B -> AutoLogits]}

-----------------------------------------------------------------------------
(* self.log(name, value, on_step=..., on_epoch=..., prog_bar=..., logger=...) *)

Log(name, value, on_step, on_epoch, prog_bar, logger) ==
    [name |-> name, value |-> value, on_step |-> on_step, on_epoch |-> on_epoch,
     prog_bar |-> prog_bar, logger |-> logger]

-----------------------------------------------------------------------------
(* SequenceClassicationLightningModule *)

\* nn.BCEWithLogitsLoss raises ValueError unless target.size() == input.size()
BinaryLossRaises(logits, targets) == logits.shape # targets.shape

\* nn.BCEWithLogitsLoss()(logits, targets): mean of softplus(-x) (target 1) and
\* softplus(x) (target 0), in thousandths
BinaryLoss(logits, targets) ==
    <<SumSeq([i \in 1..Len(logits.data) |->
                IF targets.data[i] = 1 THEN Softplus(0 - logits.data[i])
                ELSE Softplus(logits.data[i])]),
      Len(logits.data)>>

\* shared_step(batch), given what self.model(ids_seq, attn_masks) returned
BinarySharedStep(batch, raw) ==
    LET logits == Squeeze(raw)
    IN  IF BinaryLossRaises(logits, batch.target)
        THEN [raised |-> TRUE, logits |-> logits, loss |-> <<0, 0>>]
        ELSE [raised |-> FALSE, logits |-> logits, loss |-> BinaryLoss(logits, batch.target)]

\* training_step(batch, batch_idx)
BinaryTrainingStep(batch, raw) ==
    LET s == BinarySharedStep(batch, raw)
    IN  [raised |-> s.raised,
         logits |-> s.logits,
         log    |-> Log("train_loss", s.loss, TRUE, TRUE, FALSE, TRUE),
         ret    |-> [loss |-> s.loss, logits |-> s.logits, true_preds |-> batch.target]]

\* a variant of BinaryValidationStep that returns the loss as training_step does
BinaryValidationStep_WithLoss(batch, raw) ==
    LET s == BinarySharedStep(batch, raw)
    IN  [raised |-> s.raised,
         logits |-> s.logits,
         log    |-> Log("valid_loss", s.loss, FALSE, TRUE, FALSE, TRUE),
         ret    |-> [loss |-> s.loss, logits |-> s.logits, true_preds |-> batch.target]]

\* validation_step(batch, batch_idx)
BinaryValidationStep(batch, raw) ==
    LET s == BinarySharedStep(batch, raw)
    IN  [raised |-> s.raised,
         logits |-> s.logits,
         log    |-> Log("valid_loss", s.loss, FALSE, TRUE, FALSE, TRUE),
         ret    |-> [logits |-> s.logits, true_preds |-> batch.target]]

\* a variant of BinaryPredictions with a strict threshold, > 0.5
BinaryPredictions_Strict(step_outputs) ==
    LET x == Cat([i \in 1..Len(step_outputs) |-> step_outputs[i].logits])
    IN  [i \in 1..Len(x) |-> Sigmoid(x[i]) > Half]

\* a variant of BinaryPredictions that concatenates the batches last to first
BinaryPredictions_Reversed(step_outputs) ==
    LET n == Len(step_outputs)
        x == Cat([i \in 1..n |-> step_outputs[n + 1 - i].logits])
    IN  [i \in 1..Len(x) |-> Sigmoid(x[i]) >= Half]

\* torch.sigmoid(torch.cat([out["logits"] ...])) ... >= 0.5
BinaryPredictions(step_outputs) ==
    LET x == Cat([i \in 1..Len(step_outputs) |-> step_outputs[i].logits])
    IN  [i \in 1..Len(x) |-> Sigmoid(x[i]) >= Half]

\* torch.cat([out["true_preds"] ...]).to("cpu", dtype=int)
BinaryTargetsOf(step_outputs) ==
    Cat([i \in 1..Len(step_outputs) |-> step_outputs[i].true_preds])

\* training_epoch_end(training_step_outputs)
BinaryTrainingEpochEnd(training_step_outputs) ==
    LET y_pred == BinaryPredictions(training_step_outputs)
        y_true == BinaryTargetsOf(training_step_outputs)
        acc    == accuracy_score(AsInt(y_pred), y_true)
        f1     == f1_score_binary(AsInt(y_pred), y_true)
    IN  [y_pred |-> y_pred, y_true |-> y_true, acc |-> acc, f1 |-> f1,
         logged |-> {<<"train_acc", acc>>, <<"train_f1", f1>>}]

\* validation_epoch_end(validation_step_outputs)
BinaryValidationEpochEnd(validation_step_outputs) ==
    LET y_pred == BinaryPredictions(validation_step_outputs)
        y_true == BinaryTargetsOf(validation_step_outputs)
        acc    == accuracy_score(AsInt(y_pred), y_true)
        f1     == f1_score_binary(AsInt(y_pred), y_true)
    IN  [y_pred |-> y_pred, y_true |-> y_true, acc |-> acc, f1 |-> f1,
         logged |-> {<<"val_acc", acc>>, <<"val_f1", f1>>}]

-----------------------------------------------------------------------------
(* Steps of LightningModuleForTokenClassification and LightningModuleForAutoModels *)

\* training_step(batch, batch_idx), given output = self.model(**batch)
TokenTrainingStep(batch, output) ==
    [log |-> Log("train_loss", output.loss, TRUE, TRUE, TRUE, TRUE),
     ret |-> [loss |-> output.loss, logits |-> output.logits, true_preds |-> batch.labels]]

\* validation_step(batch, batch_idx)
TokenValidationStep(batch, output) ==
    [log |-> Log("valid_loss", output.loss, FALSE, TRUE, TRUE, TRUE),
     ret |-> [logits |-> output.logits, true_preds |-> batch.labels]]

\* test_step(batch, batch_idx)
TokenTestStep(batch, output) ==
    [log |-> Log("test_loss", output.loss, FALSE, TRUE, TRUE, TRUE),
     ret |-> [logits |-> output.logits, true_preds |-> batch.labels]]

\* training_step(batch, batch_idx), given output = self.model(**batch)
AutoTrainingStep(batch, output) ==
    [log |-> Log("train_loss", output.loss, TRUE, TRUE, TRUE, TRUE),
     ret |-> [loss |-> output.loss, logits |-> output.logits, true_preds |-> batch.labels]]

\* validation_step(batch, batch_idx)
AutoValidationStep(batch, output) ==
    [log |-> Log("valid_loss", output.loss, FALSE, TRUE, TRUE, TRUE),
     ret |-> [logits |-> output.logits, true_preds |-> batch.labels]]

\* test_step(batch, batch_idx)
AutoTestStep(batch, output) ==
    [log |-> Log("test_loss", output.loss, FALSE, TRUE, TRUE, TRUE),
     ret |-> [logits |-> output.logits, true_preds |-> batch.labels]]

-----------------------------------------------------------------------------
(* Epoch ends of LightningModuleForTokenClassification *)

\* a variant of ArgmaxPredictions that concatenates the batches last to first
ArgmaxPredictions_Reversed(step_outputs) ==
    LET n == Len(step_outputs)
    IN  Cat([i \in 1..n |-> View1D(ArgmaxLast(step_outputs[n + 1 - i].logits))])

\* torch.cat([torch.argmax(out["logits"], dim=-1).view(-1) ...]).numpy().reshape(-1)
ArgmaxPredictions(step_outputs) ==
    Cat([i \in 1..Len(step_outputs) |-> View1D(ArgmaxLast(step_outputs[i].logits))])

\* torch.cat([out["true_preds"].view(-1) ...]).to("cpu", dtype=int).numpy().reshape(-1)
FlatLabels(step_outputs) ==
    Cat([i \in 1..Len(step_outputs) |-> View1D(step_outputs[i].true_preds)])

\* mask = y_true != -100
SentinelMask(y_true) == [i \in 1..Len(y_true) |-> y_true[i] # Sentinel]

\* a variant of TokenTrainingEpochEnd that computes the mask and does not apply it
TokenTrainingEpochEnd_Unmasked(training_step_outputs) ==
    LET y_pred == ArgmaxPredictions(training_step_outputs)
        y_true == FlatLabels(training_step_outputs)
        acc    == accuracy_score(y_true, y_pred)
        f1     == f1_score_weighted(y_true, y_pred)
    IN  [y_pred |-> y_pred, y_true |-> y_true, acc |-> acc, f1 |-> f1,
         logged |-> {<<"train_acc", acc>>, <<"train_f1", f1>>}]

\* training_epoch_end(training_step_outputs)
TokenTrainingEpochEnd(training_step_outputs) ==
    LET y_pred0 == ArgmaxPredictions(training_step_outputs)
        y_true0 == FlatLabels(training_step_outputs)
        mask    == SentinelMask(y_true0)
        y_true  == MaskSelect(y_true0, mask)
        y_pred  == MaskSelect(y_pred0, mask)
        acc     == accuracy_score(y_true, y_pred)
        f1      == f1_score_weighted(y_true, y_pred)
    IN  [y_pred |-> y_pred, y_true |-> y_true, acc |-> acc, f1 |-> f1,
         logged |-> {<<"train_acc", acc>>, <<"train_f1", f1>>}]

\* a variant of TokenValidationEpochEnd that applies the mask to both arrays
TokenValidationEpochEnd_Masked(validation_step_outputs) ==
    LET y_pred0 == ArgmaxPredictions(validation_step_outputs)
        y_true0 == FlatLabels(validation_step_outputs)
        mask    == SentinelMask(y_true0)
        y_true  == MaskSelect(y_true0, mask)
        y_pred  == MaskSelect(y_pred0, mask)
        acc     == accuracy_score(y_true, y_pred)
        f1      == f1_score_weighted(y_true, y_pred)
    IN  [y_pred |-> y_pred, y_true |-> y_true, acc |-> acc, f1 |-> f1,
         logged |-> {<<"val_acc", acc>>, <<"val_f1", f1>>}]

\* validation_epoch_end(validation_step_outputs): mask is computed and not used
TokenValidationEpochEnd(validation_step_outputs) ==
    LET y_pred == ArgmaxPredictions(validation_step_outputs)
        y_true == FlatLabels(validation_step_outputs)
        mask   == SentinelMask(y_true)
        acc    == accuracy_score(y_true, y_pred)
        f1     == f1_score_weighted(y_true, y_pred)
    IN  [y_pred |-> y_pred, y_true |-> y_true, acc |-> acc, f1 |-> f1,
         logged |-> {<<"val_acc", acc>>, <<"val_f1", f1>>}]

\* a variant of TokenTestEpochEnd that applies the mask to y_true only
TokenTestEpochEnd_MaskTrueOnly(test_step_outputs) ==
    LET y_pred  == ArgmaxPredictions(test_step_outputs)
        y_true0 == FlatLabels(test_step_outputs)
        mask    == SentinelMask(y_true0)
        y_true  == MaskSelect(y_true0, mask)
        acc     == accuracy_score(y_true, y_pred)
        f1      == f1_score_weighted(y_true, y_pred)
    IN  [y_pred |-> y_pred, y_true |-> y_true, acc |-> acc, f1 |-> f1,
         logged |-> {<<"test_acc", acc>>, <<"test_f1", f1>>}]

\* test_epoch_end(test_step_outputs): mask is computed and not used
TokenTestEpochEnd(test_step_outputs) ==
    LET y_pred == ArgmaxPredictions(test_step_outputs)
        y_true == FlatLabels(test_step_outputs)
        mask   == SentinelMask(y_true)
        acc    == accuracy_score(y_true, y_pred)
        f1     == f1_score_weighted(y_true, y_pred)
    IN  [y_pred |-> y_pred, y_true |-> y_true, acc |-> acc, f1 |-> f1,
         logged |-> {<<"test_acc", acc>>, <<"test_f1", f1>>}]

-----------------------------------------------------------------------------
(* Epoch ends of LightningModuleForAutoModels *)

\* training_epoch_end(training_step_outputs)
AutoTrainingEpochEnd(training_step_outputs) ==
    LET y_pred0 == ArgmaxPredictions(training_step_outputs)
        y_true0 == FlatLabels(training_step_outputs)
        mask    == SentinelMask(y_true0)
        y_true  == MaskSelect(y_true0, mask)
        y_pred  == MaskSelect(y_pred0, mask)
        acc     == accuracy_score(y_true, y_pred)
        f1      == f1_score_weighted(y_true, y_pred)
    IN  [y_pred |-> y_pred, y_true |-> y_true, acc |-> acc, f1 |-> f1,
         logged |-> {<<"train_acc", acc>>, <<"train_f1", f1>>}]

\* a variant of AutoValidationEpochEnd that, like the token module's, leaves the
\* mask unapplied
AutoValidationEpochEnd_Unmasked(validation_step_outputs) ==
    LET y_pred == ArgmaxPredictions(validation_step_outputs)
        y_true == FlatLabels(validation_step_outputs)
        acc    == accuracy_score(y_true, y_pred)
        f1     == f1_score_weighted(y_true, y_pred)
    IN  [y_pred |-> y_pred, y_true |-> y_true, acc |-> acc, f1 |-> f1,
         logged |-> {<<"val_acc", acc>>, <<"val_f1", f1>>}]

\* validation_epoch_end(validation_step_outputs)
AutoValidationEpochEnd(validation_step_outputs) ==
    LET y_pred0 == ArgmaxPredictions(validation_step_outputs)
        y_true0 == FlatLabels(validation_step_outputs)
        mask    == SentinelMask(y_true0)
        y_true  == MaskSelect(y_true0, mask)
        y_pred  == MaskSelect(y_pred0, mask)
        acc     == accuracy_score(y_true, y_pred)
        f1      == f1_score_weighted(y_true, y_pred)
    IN  [y_pred |-> y_pred, y_true |-> y_true, acc |-> acc, f1 |-> f1,
         logged |-> {<<"val_acc", acc>>, <<"val_f1", f1>>}]

\* test_epoch_end(test_step_outputs)
AutoTestEpochEnd(test_step_outputs) ==
    LET y_pred0 == ArgmaxPredictions(test_step_outputs)
        y_true0 == FlatLabels(test_step_outputs)
        mask    == SentinelMask(y_true0)
        y_true  == MaskSelect(y_true0, mask)
        y_pred  == MaskSelect(y_pred0, mask)
        acc     == accuracy_score(y_true, y_pred)
        f1      == f1_score_weighted(y_true, y_pred)
    IN  [y_pred |-> y_pred, y_true |-> y_true, acc |-> acc, f1 |-> f1,
         logged |-> {<<"test_acc", acc>>, <<"test_f1", f1>>}]

-----------------------------------------------------------------------------
(* configure_optimizers of the token-classification and Auto modules *)

\* parameter names are strings: sequences of characters
ClassifierWord == <<"c", "l", "a", "s", "s", "i", "f", "i", "e", "r">>

\* "classifier.weight"
NameClassifierWeight ==
    <<"c", "l", "a", "s", "s", "i", "f", "i", "e", "r", ".", "w", "e", "i", "g", "h", "t">>
\* "classifier.bias"
NameClassifierBias ==
    <<"c", "l", "a", "s", "s", "i", "f", "i", "e", "r", ".", "b", "i", "a", "s">>
\* "pre_classifier.weight"
NamePreClassifier ==
    <<"p", "r", "e", "_", "c", "l", "a", "s", "s", "i", "f", "i", "e", "r", ".", "w", "e", "i", "g", "h", "t">>
\* "classifier.out_proj.weight"
NameOutProj ==
    <<"c", "l", "a", "s", "s", "i", "f", "i", "e", "r", ".", "o", "u", "t", "_", "p", "r", "o", "j", ".", "w", "e", "i", "g", "h", "t">>
\* "bert.pooler.dense.weight"
NamePooler ==
    <<"b", "e", "r", "t", ".", "p", "o", "o", "l", "e", "r", ".", "d", "e", "n", "s", "e", ".", "w", "e", "i", "g", "h", "t">>
\* "bert.embeddings.word_embeddings.weight"
NameEmbeddings ==
    <<"b", "e", "r", "t", ".", "e", "m", "b", "e", "d", "d", "i", "n", "g", "s", ".", "w", "o", "r", "d", "_", "e", "m", "b", "e", "d", "d", "i", "n", "g", "s", ".", "w", "e", "i", "g", "h", "t">>

ParameterNames ==
    {NameClassifierWeight,
     NameClassifierBias,
     NamePreClassifier,
     NameOutProj,
     NamePooler,
     NameEmbeddings}

\* Python's  needle in s  on strings
Contains(needle, s) ==
    \E i \in 1..(Len(s) - Len(needle) + 1) : SubSeq(s, i, i + Len(needle) - 1) = needle

\* a variant of is_backbone that tests the name's prefix, n.startswith('classifier')
is_backbone_Prefix(n) ==
    ~(Len(n) >= Len(ClassifierWord) /\ SubSeq(n, 1, Len(ClassifierWord)) = ClassifierWord)

\* def is_backbone(n): return 'classifier' not in n
is_backbone(n) == ~Contains(ClassifierWord, n)

\* LightningModuleForTokenClassification.configure_optimizers
TokenConfigureOptimizers(params, hp) ==
    [groups |-> << [params |-> SelectSeq(params, is_backbone), lr |-> hp.base_lr],
                   [params |-> SelectSeq(params, LAMBDA n : ~is_backbone(n)), lr |-> hp.linear_lr] >>,
     lr     |-> hp.base_lr]

\* LightningModuleForAutoModels.configure_optimizers
AutoConfigureOptimizers(params, hp) ==
    [groups |-> << [params |-> SelectSeq(params, is_backbone), lr |-> hp.base_lr],
                   [params |-> SelectSeq(params, LAMBDA n : ~is_backbone(n)), lr |-> hp.linear_lr] >>,
     lr     |-> hp.base_lr]

-----------------------------------------------------------------------------
(* The trainer's lifecycle *)

Modules == {"binary", "token", "auto"}

\* the binary module defines no test hooks
Stages(m) == IF m = "binary" THEN {"train", "val"} ELSE {"train", "val", "test"}

NoLast == [raw |-> <<>>, logits |-> <<>>, target |-> <<>>]
NoResult == [y_pred |-> <<>>, y_true |-> <<>>, acc |-> <<0, 0>>, f1 |-> <<0, 0>>, logged |-> {}]
NoOptim == [groups |-> <<>>, lr |-> 0]
\* learning rates in millionths
HParams == {[base_lr |-> 20, linear_lr |-> 1000], [base_lr |-> 30, linear_lr |-> 500]}
DefaultHParams == [base_lr |-> 20, linear_lr |-> 1000]

\* samples or tokens already delivered this epoch
Used == SumSeq([i \in 1..Len(arrived) |-> Len(arrived[i].labels.data)])
Room ==
    (CASE module = "binary" -> MaxBinarySamples
       [] module = "token"  -> MaxTokens
       [] module = "auto"   -> MaxAutoSamples) - Used

Init ==
    /\ module \in Modules
    /\ pc = "idle"
    /\ stage = "none"
    /\ outputs = <<>>
    /\ arrived = <<>>
    /\ last = NoLast
    /\ logs = {}
    /\ result = NoResult
    /\ named = <<>>
    /\ hparams = DefaultHParams
    /\ optim = NoOptim

\* the trainer opens an epoch with an empty buffer
StartEpoch ==
    /\ pc \in {"idle", "ended"}
    /\ \E s \in Stages(module) : stage' = s
    /\ pc' = "running"
    /\ outputs' = <<>>
    /\ arrived' = <<>>
    /\ last' = NoLast
    /\ logs' = {}
    /\ result' = NoResult
    /\ UNCHANGED <<module, named, hparams, optim>>

\* a binary step hook ran on batch: its return value joins the buffer, or its
\* exception ends the run
BinaryStepTaken(r, batch, raw) ==
    /\ arrived' = Append(arrived, [labels |-> batch.target, logits |-> raw])
    /\ last' = [raw |-> raw.shape, logits |-> r.logits.shape, target |-> batch.target.shape]
    /\ IF r.raised
       THEN pc' = "failed" /\ UNCHANGED <<outputs, logs>>
       ELSE pc' = pc /\ outputs' = Append(outputs, r.ret) /\ logs' = logs \cup {r.log}
    /\ UNCHANGED <<module, stage, result, named, hparams, optim>>

\* a token or Auto step hook ran on batch
StepTaken(r, batch, output) ==
    /\ arrived' = Append(arrived, [labels |-> batch.labels, logits |-> output.logits])
    /\ outputs' = Append(outputs, r.ret)
    /\ logs' = logs \cup {r.log}
    /\ UNCHANGED <<module, pc, stage, last, result, named, hparams, optim>>

BinaryStep ==
    /\ pc = "running" /\ module = "binary"
    /\ \E B \in 1..Room : \E batch \in BinaryBatches(B) : \E raw \in MainModelForward(batch) :
        \/ stage = "train" /\ BinaryStepTaken(BinaryTrainingStep(batch, raw), batch, raw)
        \/ stage = "val" /\ BinaryStepTaken(BinaryValidationStep(batch, raw), batch, raw)

TokenStep ==
    /\ pc = "running" /\ module = "token"
    /\ \E B \in 1..Room : \E L \in 1..(Room \div B) :
       \E batch \in TokenBatches(B, L) : \E output \in TokenModelForward(batch) :
        \/ stage = "train" /\ StepTaken(TokenTrainingStep(batch, output), batch, output)
        \/ stage = "val" /\ StepTaken(TokenValidationStep(batch, output), batch, output)
        \/ stage = "test" /\ StepTaken(TokenTestStep(batch, output), batch, output)

AutoStep ==
    /\ pc = "running" /\ module = "auto"
    /\ \E B \in 1..Room : \E batch \in AutoBatches(B) : \E output \in AutoModelForward(batch) :
        \/ stage = "train" /\ StepTaken(AutoTrainingStep(batch, output), batch, output)
        \/ stage = "val" /\ StepTaken(AutoValidationStep(batch, output), batch, output)
        \/ stage = "test" /\ StepTaken(AutoTestStep(batch, output), batch, output)

\* the epoch_end hook of the running stage, on the buffered outputs
EpochEndOf(m, s, outs) ==
    CASE m = "binary" /\ s = "train" -> BinaryTrainingEpochEnd(outs)
      [] m = "binary" /\ s = "val"   -> BinaryValidationEpochEnd(outs)
      [] m = "token"  /\ s = "train" -> TokenTrainingEpochEnd(outs)
      [] m = "token"  /\ s = "val"   -> TokenValidationEpochEnd(outs)
      [] m = "token"  /\ s = "test"  -> TokenTestEpochEnd(outs)
      [] m = "auto"   /\ s = "train" -> AutoTrainingEpochEnd(outs)
      [] m = "auto"   /\ s = "val"   -> AutoValidationEpochEnd(outs)
      [] m = "auto"   /\ s = "test"  -> AutoTestEpochEnd(outs)

\* the trainer hands the epoch's buffer to the stage's epoch_end hook
EpochEnd ==
    /\ pc = "running"
    /\ Len(outputs) >= 1
    /\ IF CanCat([i \in 1..Len(outputs) |-> outputs[i].logits])
       THEN pc' = "ended" /\ result' = EpochEndOf(module, stage, outputs)
       ELSE pc' = "failed" /\ result' = result
    /\ UNCHANGED <<module, stage, outputs, arrived, last, logs, named, hparams, optim>>

Next == StartEpoch \/ BinaryStep \/ TokenStep \/ AutoStep \/ EpochEnd

Spec == Init /\ [][Next]_vars

-----------------------------------------------------------------------------
(* Optimizer construction, before the first epoch *)

RECURSIVE NameLists(_)
\* lists of distinct parameter names, of length at most n
NameLists(n) ==
    IF n = 0 THEN {<<>>}
    ELSE LET shorter == NameLists(n - 1)
         IN  shorter \cup
             {Append(l, x) : <<l, x>> \in
                {<<l, x>> \in shorter \X ParameterNames : \A i \in 1..Len(l) : l[i] # x}}

InitOptim ==
    /\ module \in {"token", "auto"}
    /\ pc = "init"
    /\ stage = "none"
    /\ outputs = <<>>
    /\ arrived = <<>>
    /\ last = NoLast
    /\ logs = {}
    /\ result = NoResult
    /\ named \in NameLists(MaxParams) \ {<<>>}
    /\ hparams \in HParams
    /\ optim = NoOptim

ConfigureOptimizers ==
    /\ pc = "init"
    /\ pc' = "idle"
    /\ optim' = IF module = "token" THEN TokenConfigureOptimizers(named, hparams)
                ELSE AutoConfigureOptimizers(named, hparams)
    /\ UNCHANGED <<module, stage, outputs, arrived, last, logs, result, named, hparams>>

NextOptim == ConfigureOptimizers

SpecOptim == InitOptim /\ [][NextOptim]_vars

-----------------------------------------------------------------------------
(* What the trainer delivered this epoch, read from arrived, position by position *)

Min(a, b) == IF a <= b THEN a ELSE b
Zip(a, b) == [i \in 1..Min(Len(a), Len(b)) |-> <<a[i], b[i]>>]

\* the labels of every delivered position, in arrival order
DeliveredLabels == ConcatAll([i \in 1..Len(arrived) |-> arrived[i].labels.data])
\* the argmax of the logits of every delivered position, in arrival order
DeliveredArgmax == ConcatAll([i \in 1..Len(arrived) |-> ArgmaxLast(arrived[i].logits).data])
\* <<prediction, label>> of every delivered position
DeliveredPairs == Zip(DeliveredArgmax, DeliveredLabels)
\* the same without the positions labelled with the sentinel
KeptPairs == SelectSeq(DeliveredPairs, LAMBDA q : q[2] # Sentinel)
\* the raw binary logits and the thresholded predictions of every delivered sample
DeliveredRaw == ConcatAll([i \in 1..Len(arrived) |-> arrived[i].logits.data])
Threshold(x) == [i \in 1..Len(x) |-> Sigmoid(x[i]) >= Half]
\* <<prediction, label>> as the epoch_end handed them to the metrics
ResultPairs == Zip(result.y_pred, result.y_true)
SameLength == Len(result.y_pred) = Len(result.y_true)
Correct(pairs) == Cardinality({i \in 1..Len(pairs) : pairs[i][1] = pairs[i][2]})

-----------------------------------------------------------------------------
(* C1 *)

C1_Case ==
    /\ module = "token" /\ pc = "ended" /\ stage \in {"val", "test"}
    /\ \E i \in 1..Len(DeliveredLabels) : DeliveredLabels[i] = Sentinel

\* the validation/test path scores the unfiltered arrays, the training path the filtered ones
C1_Paths ==
    LET t == TokenTrainingEpochEnd(outputs)
    IN  /\ SameLength
        /\ ResultPairs = DeliveredPairs
        /\ result.acc = <<Correct(DeliveredPairs), Len(DeliveredPairs)>>
        /\ result.f1 = f1_score_weighted(DeliveredLabels, DeliveredArgmax)
        /\ Zip(t.y_pred, t.y_true) = KeptPairs
        /\ t.acc = <<Correct(KeptPairs), Len(KeptPairs)>>

\* C1 as stated: with a sentinel among the labels, validation_epoch_end and
\* test_epoch_end score the unfiltered arrays, training_epoch_end the filtered
\* ones, and the validation/test accuracy and F1 are lower than the training
\* path's on the same buffer. (A training path left with no position to score
\* has no score, which is read here as different.)
C1_Original ==
    C1_Case =>
        LET t == TokenTrainingEpochEnd(outputs)
        IN  /\ C1_Paths
            /\ t.y_true # <<>> =>
                /\ RatLt(result.acc, t.acc)
                /\ RatLt(result.f1, t.f1)

\* C1 amended: as C1, except that the validation/test score is never higher than
\* the training path's, is lower exactly when the training path's score is
\* positive, and is 0 like it when no non-sentinel position is predicted correctly.
C1_Amended ==
    C1_Case =>
        LET t == TokenTrainingEpochEnd(outputs)
        IN  /\ C1_Paths
            /\ t.y_true # <<>> =>
                /\ RatLe(result.acc, t.acc)
                /\ RatLe(result.f1, t.f1)
                /\ (t.acc[1] > 0 <=> RatLt(result.acc, t.acc))
                /\ (t.f1[1] > 0 <=> RatLt(result.f1, t.f1))
                /\ (t.acc[1] = 0 => result.acc[1] = 0)
                /\ (t.f1[1] = 0 => result.f1[1] = 0)

C1_Witness ==
    /\ C1_Case /\ stage = "val"
    /\ Len(KeptPairs) = 2 /\ Correct(KeptPairs) = 1
    /\ RatLt(result.acc, TokenTrainingEpochEnd(outputs).acc)
    /\ RatLt(result.f1, TokenTrainingEpochEnd(outputs).f1)

-----------------------------------------------------------------------------
(* C2 *)

\* one batch, true labels [[1, -100, 0]], argmax predictions [[1, 0, 1]]
C2_Scenario ==
    /\ module = "token" /\ pc = "ended"
    /\ Len(arrived) = 1
    /\ arrived[1].labels = Tensor(<<1, 3>>, <<1, Sentinel, 0>>)
    /\ ArgmaxLast(arrived[1].logits).data = <<1, 0, 1>>

\* C2 as stated: on that batch training_epoch_end logs accuracy 1.0 and
\* validation_epoch_end logs accuracy 2/3.
C2_Original ==
    C2_Scenario =>
        /\ stage = "train" => RatEq(result.acc, <<1, 1>>)
        /\ stage = "val" => RatEq(result.acc, <<2, 3>>)

\* C2 amended: on that batch training_epoch_end logs accuracy 1/2 (positions 1 and
\* 3 remain, only position 1 is correct) and validation_epoch_end logs 1/3.
C2_Amended ==
    C2_Scenario =>
        /\ stage = "train" =>
            /\ result.y_true = <<1, 0>> /\ result.y_pred = <<1, 1>>
            /\ RatEq(result.acc, <<1, 2>>)
            /\ <<"train_acc", result.acc>> \in result.logged
        /\ stage = "val" =>
            /\ result.y_true = <<1, Sentinel, 0>> /\ result.y_pred = <<1, 0, 1>>
            /\ RatEq(result.acc, <<1, 3>>)
            /\ <<"val_acc", result.acc>> \in result.logged

C2_Witness == C2_Scenario /\ stage = "train" /\ result.acc = <<1, 2>>

-----------------------------------------------------------------------------
(* C3 *)

InGroup(g, n) == \E j \in 1..Len(g.params) : g.params[j] = n

\* C3: configure_optimizers of the token and Auto modules puts every named
\* parameter in exactly one of two groups, in the second exactly when its name
\* contains "classifier"; the first group has lr = base_lr, the second linear_lr.
C3_Bipartition ==
    (pc = "idle" /\ module \in {"token", "auto"} /\ named # <<>>) =>
        /\ Len(optim.groups) = 2
        /\ \A i \in 1..Len(named) :
            /\ InGroup(optim.groups[1], named[i]) # InGroup(optim.groups[2], named[i])
            /\ InGroup(optim.groups[2], named[i]) <=> Contains(ClassifierWord, named[i])
        /\ Len(optim.groups[1].params) + Len(optim.groups[2].params) = Len(named)
        /\ optim.groups[1].lr = hparams.base_lr
        /\ optim.groups[2].lr = hparams.linear_lr

C3_Witness ==
    /\ pc = "idle" /\ module = "auto" /\ Len(named) = 3
    /\ InGroup(optim.groups[2], NamePreClassifier)
    /\ InGroup(optim.groups[2], NameClassifierBias)
    /\ InGroup(optim.groups[1], NamePooler)

-----------------------------------------------------------------------------
(* C4 *)

\* C4: in the Auto module training_epoch_end, validation_epoch_end and
\* test_epoch_end all remove exactly the sentinel-labelled positions from both
\* arrays, so the three give the same arrays and metrics on the same buffer.
C4_AutoFilters ==
    (module = "auto" /\ pc = "ended") =>
        LET a == AutoTrainingEpochEnd(outputs)
            b == AutoValidationEpochEnd(outputs)
            c == AutoTestEpochEnd(outputs)
        IN  /\ SameLength
            /\ ResultPairs = KeptPairs
            /\ result.acc = <<Correct(KeptPairs), Len(KeptPairs)>>
            /\ \A r \in {a, b, c} :
                /\ Zip(r.y_pred, r.y_true) = KeptPairs
                /\ Len(r.y_pred) = Len(r.y_true)
                /\ r.acc = result.acc
                /\ r.f1 = result.f1

C4_Witness ==
    /\ module = "auto" /\ pc = "ended" /\ stage = "val"
    /\ Len(DeliveredPairs) = 3 /\ Len(KeptPairs) = 2
    /\ result.y_true = <<2, 1>>

-----------------------------------------------------------------------------
(* C5 *)

\* C5: thresholding the concatenation of the buffered logits gives the same
\* boolean array as thresholding each batch's logits and concatenating the
\* results in batch order.
C5_ThresholdCommutes ==
    (module = "binary" /\ pc \in {"running", "ended"}) =>
        LET perBatch == ConcatAll([i \in 1..Len(outputs) |-> Threshold(outputs[i].logits.data)])
        IN  /\ BinaryPredictions(outputs) = perBatch
            /\ pc = "ended" => result.y_pred = perBatch

C5_Witness ==
    /\ module = "binary" /\ pc = "ended" /\ Len(outputs) = 2
    /\ result.y_pred = <<TRUE, TRUE, FALSE, FALSE>>

-----------------------------------------------------------------------------
(* C6 *)

\* C6: the binary epoch ends log accuracy and binary F1 of the predictions
\* sigmoid(logit) >= 0.5 measured against the targets as ground truth; logits
\* [2.0, -2.0] with targets [1, 0] give [true, false], accuracy 1.0 and F1 1.0.
C6_BinaryMetrics ==
    (module = "binary" /\ pc = "ended") =>
        LET x == DeliveredRaw
            t == DeliveredLabels
            q == AsInt(Threshold(x))
        IN  /\ result.y_pred = Threshold(x)
            /\ result.y_true = t
            /\ RatEq(result.acc, accuracy_score(t, q))
            /\ RatEq(result.f1, f1_score_binary(t, q))
            /\ stage = "train" =>
                result.logged = {<<"train_acc", result.acc>>, <<"train_f1", result.f1>>}
            /\ stage = "val" =>
                result.logged = {<<"val_acc", result.acc>>, <<"val_f1", result.f1>>}
            /\ (x = <<2, -2>> /\ t = <<1, 0>>) =>
                /\ result.y_pred = <<TRUE, FALSE>>
                /\ RatEq(result.acc, <<1, 1>>)
                /\ RatEq(result.f1, <<1, 1>>)

C6_Witness ==
    /\ module = "binary" /\ pc = "ended" /\ stage = "train"
    /\ DeliveredRaw = <<2, -2>> /\ DeliveredLabels = <<1, 0>>
    /\ result.acc = <<2, 2>>

-----------------------------------------------------------------------------
(* C7 *)

C7_Case == module = "binary" /\ pc \in {"running", "ended"}

\* the loss logged with the stage's name and flags, and the shared step's outputs
C7_StepsAndLogs ==
    /\ Len(outputs) >= 1 => logs # {}
    /\ \A l \in logs :
        /\ l.on_epoch /\ l.logger /\ ~l.prog_bar
        /\ stage = "train" => l.name = "train_loss" /\ l.on_step
        /\ stage = "val" => l.name = "valid_loss" /\ ~l.on_step
        /\ \E i \in 1..Len(arrived) :
            l.value = BinaryLoss(Squeeze(arrived[i].logits), arrived[i].labels)
    /\ \A i \in 1..Len(outputs) :
        /\ outputs[i].logits = Squeeze(arrived[i].logits)
        /\ outputs[i].true_preds = arrived[i].labels

\* C7 as stated: training_step and validation_step both invoke the shared step,
\* log the loss (training per step and per epoch, validation per epoch only) and
\* return loss, logits and true_preds.
C7_Original ==
    C7_Case =>
        /\ C7_StepsAndLogs
        /\ \A i \in 1..Len(outputs) : DOMAIN outputs[i] = {"loss", "logits", "true_preds"}

\* C7 amended: as C7, except that validation_step returns only logits and
\* true_preds; training_step alone returns the loss as well.
C7_Amended ==
    C7_Case =>
        /\ C7_StepsAndLogs
        /\ \A i \in 1..Len(outputs) :
            /\ stage = "train" =>
                /\ DOMAIN outputs[i] = {"loss", "logits", "true_preds"}
                /\ outputs[i].loss = BinaryLoss(outputs[i].logits, outputs[i].true_preds)
            /\ stage = "val" => DOMAIN outputs[i] = {"logits", "true_preds"}

C7_Witness ==
    /\ C7_Case /\ stage = "val" /\ Len(outputs) = 2
    /\ DOMAIN outputs[2] = {"logits", "true_preds"}
    /\ Cardinality(logs) = 2

-----------------------------------------------------------------------------
(* C8 *)

\* C8 as stated: for every batch of B >= 1 samples the shared step turns the (B, 1)
\* logits into a 1-D tensor of length B, the shape of the targets.
C8_Claim ==
    (module = "binary" /\ last.raw # <<>>) =>
        /\ last.logits = <<last.raw[1]>>
        /\ last.logits = last.target
        /\ pc # "failed"

-----------------------------------------------------------------------------
(* C9 *)

\* C9: every step call adds exactly one StepOutput to the epoch buffer, and the
\* epoch end builds its two arrays from all of them in arrival order, so that
\* element i of both comes from the same position.
C9_Lifecycle ==
    (pc \in {"running", "ended"}) =>
        /\ Len(outputs) = Len(arrived)
        /\ \A i \in 1..Len(outputs) :
            /\ outputs[i].true_preds = arrived[i].labels
            /\ outputs[i].logits =
                IF module = "binary" THEN Squeeze(arrived[i].logits) ELSE arrived[i].logits
        /\ pc = "ended" =>
            /\ SameLength
            /\ ResultPairs =
                CASE module = "binary" -> Zip(Threshold(DeliveredRaw), DeliveredLabels)
                  [] module = "token" /\ stage = "train" -> KeptPairs
                  [] module = "token" /\ stage # "train" -> DeliveredPairs
                  [] module = "auto" -> KeptPairs

C9_Witness ==
    /\ module = "token" /\ pc = "ended" /\ stage = "train"
    /\ Len(outputs) = 3
    /\ ResultPairs = << <<1, 1>>, <<0, 1>>, <<0, 0>> >>

-----------------------------------------------------------------------------
(* C10 *)

\* C10: in every epoch end of the token and Auto modules the prediction and target
\* arrays handed to the metrics have equal length: the mask is applied to both
\* arrays or to neither.
C10_EqualLengths ==
    (module \in {"token", "auto"} /\ pc = "ended") =>
        /\ Len(result.y_pred) = Len(result.y_true)
        /\ \/ ResultPairs = DeliveredPairs
           \/ ResultPairs = KeptPairs

C10_Witness ==
    /\ module = "token" /\ pc = "ended" /\ stage = "test"
    /\ Len(KeptPairs) = 1
    /\ Len(result.y_pred) = 3 /\ Len(result.y_true) = 3

====
